---- MODULE Spec2Model ----
(***************************************************************************)
(* ConcertedRMSDForce / ConcertedRMSDForceImpl.                            *)
(*                                                                         *)
(* The owner (ConcertedRMSDForce) holds the user's reference positions and *)
(* particle list; the implementation object (ConcertedRMSDForceImpl) holds *)
(* the validated copy: particles, numParticles and the centred             *)
(* referencePos.  The handlers are initialize, computeForce and            *)
(* updateParametersInContext.                                              *)
(*                                                                         *)
(* Numbers.  A double is modelled by an exact rational [n, d] (d > 0, in   *)
(* lowest terms) or by NaN (d = 0).  A Vec3 is modelled by its x           *)
(* component: all positions lie on the x axis, so that the correlation     *)
(* matrix R has the single entry R[0][0], the matrix F is                  *)
(* diag(R00, R00, -R00, -R00), and its largest eigenvalue is |R00|.        *)
(* Vectors are 0-based in the source and sequences here: v[i] of the       *)
(* source is At(v, i).                                                     *)
(***************************************************************************)
EXTENDS Integers, Sequences, FiniteSets, TLC

\* Number of particles of the System the context was created for
\* (system.getNumParticles()).
NumSystemParticles == 3

\* Coordinates of the positions supplied by the user and the host: 0..MaxCoord.
MaxCoord == 1

\* Longest particle list the user passes to setParticles.
MaxSel == 2

Coord == 0..MaxCoord

\* Particle indices the user may pass: one below the range, the range, one above.
IndexInputs == (0 - 1)..NumSystemParticles

\* What a read outside a vector's storage may return.
Garbage == Coord

----------------------------------------------------------------------------
(* Exact arithmetic standing for double arithmetic. *)

Abs(a) == IF a < 0 THEN 0 - a ELSE a

RECURSIVE GCD(_, _)
GCD(a, b) == IF b = 0 THEN a ELSE GCD(b, a % b)

NaN == [n |-> 0, d |-> 0]

IsNaN(x) == x.d = 0

\* n/d with d > 0, in lowest terms.
Rat(n, d) == LET g == GCD(Abs(n), d) IN [n |-> n \div g, d |-> d \div g]

Num(k) == [n |-> k, d |-> 1]

Zero == Num(0)

RAdd(x, y) == IF IsNaN(x) \/ IsNaN(y) THEN NaN
              ELSE Rat(x.n * y.d + y.n * x.d, x.d * y.d)

RNeg(x) == [n |-> 0 - x.n, d |-> x.d]

RSub(x, y) == RAdd(x, RNeg(y))

RMul(x, y) == IF IsNaN(x) \/ IsNaN(y) THEN NaN ELSE Rat(x.n * y.n, x.d * y.d)

RAbs(x) == [n |-> Abs(x.n), d |-> x.d]

\* x / k for an int k >= 0.  The only division by zero the handlers perform
\* is of an empty sum, 0.0/0, which is NaN.
RDivInt(x, k) == IF IsNaN(x) \/ k = 0 THEN NaN ELSE Rat(x.n, x.d * k)

\* x < 1e-20.  Every value compared has a denominator far below 1e20, so it
\* is below the threshold exactly when it is not positive; a comparison with
\* NaN is false.
BelowThreshold(x) == ~IsNaN(x) /\ x.n <= 0

----------------------------------------------------------------------------
(* Vectors. *)

InRange(i, len) == i >= 0 /\ i < len

\* v[i]; a read outside the storage returns what the memory there holds.
At(v, i, mem) == IF InRange(i, Len(v)) THEN v[i + 1] ELSE mem[i]

RECURSIVE SumAt(_, _, _, _)
\* for (int i : p) center += v[i];  over the first k elements of p
SumAt(v, p, k, mem) ==
    IF k = 0 THEN Zero ELSE RAdd(SumAt(v, p, k - 1, mem), At(v, p[k], mem))

SeqToSet(s) == {s[k] : k \in 1..Len(s)}

HasOutOfRange(p, len) == \E k \in 1..Len(p) : ~InRange(p[k], len)

\* The memory outside a vector of length len at the places the indices of p
\* reach, as the reads of one call see it.
Mems(p, len) == [{i \in SeqToSet(p) : ~InRange(i, len)} -> {Num(g) : g \in Garbage}]

ToVec(s) == [k \in 1..Len(s) |-> Num(s[k])]

----------------------------------------------------------------------------
(* State. *)

VARIABLES
    referencePositions, \* ConcertedRMSDForce::referencePositions (the owner's)
    ownerParticles,     \* ConcertedRMSDForce::particles (the owner's)
    particles,          \* ConcertedRMSDForceImpl::particles
    numParticles,       \* ConcertedRMSDForceImpl::numParticles
    referencePos,       \* ConcertedRMSDForceImpl::referencePos
    phase,              \* life of the implementation object in its context
    forces,             \* the force array of the last call's computeForce
    call,               \* the last call made and what it returned
    pc,                 \* the line a stepwise updateParametersInContext is at
    seen                \* the stored state when that update began, and then
                        \* what a computeForce running beside it read

vars == <<referencePositions, ownerParticles, particles, numParticles,
          referencePos, phase, forces, call, pc, seen>>

owner == <<referencePositions, ownerParticles>>

impl == <<particles, numParticles, referencePos>>

\* Reference arrays the user passes: the arrays of the System's length with
\* non-decreasing coordinates, and one shorter and one longer array.
RefInputs ==
    {r \in [1..NumSystemParticles -> Coord] :
        \A k \in 1..(NumSystemParticles - 1) : r[k] <= r[k + 1]}
        \cup {[k \in 1..(NumSystemParticles - 1) |-> 0],
              [k \in 1..(NumSystemParticles + 1) |-> 0]}

\* Particle lists the user passes.
SelInputs == UNION {[1..n -> IndexInputs] : n \in 0..MaxSel}

\* The host's arrays have one entry per particle of the System.
PositionInputs == [1..NumSystemParticles -> Coord]

\* A force written by computeForce is num / sqrt(msd); one supplied by the
\* host is num / sqrt(1).
Force(num, msd) == [num |-> num, msd |-> msd]

HostForce(v) == Force(Num(v), Num(1))

\* Force arrays the host hands in: all zero, and entry i holding i + 1.
ForceInputs == {[k \in 1..NumSystemParticles |-> HostForce(0)],
                [k \in 1..NumSystemParticles |-> HostForce(k)]}

ZeroForces == [k \in 1..NumSystemParticles |-> HostForce(0)]

\* What is recorded of a call.
Call(op, result, index, notified, small) ==
    [op |-> op, result |-> result, index |-> index, notified |-> notified,
     small |-> small, ret |-> Zero, forcesIn |-> ZeroForces]

\* What numParticles may hold in an object initialize has not run on: the
\* constructor createImpl calls is not shown to set it.
UninitInts == {0, 1}

NoSeen == <<>>

Init ==
    /\ referencePositions \in RefInputs
    /\ ownerParticles \in SelInputs
    /\ particles = <<>>
    /\ numParticles \in UninitInts
    /\ referencePos = <<>>
    /\ phase = "created"
    /\ forces = ZeroForces
    /\ call = Call("ConcertedRMSDForce", "ok", 0, 0, FALSE)
    /\ pc = "idle"
    /\ seen = NoSeen

----------------------------------------------------------------------------
(* The owner: ConcertedRMSDForce. *)

setReferencePositions(positions) ==
    /\ pc = "idle"
    /\ referencePositions' = positions
    /\ call' = Call("setReferencePositions", "ok", 0, 0, FALSE)
    /\ forces' = ZeroForces
    /\ UNCHANGED <<ownerParticles, impl, phase, pc, seen>>

setParticles(p) ==
    /\ pc = "idle"
    /\ ownerParticles' = p
    /\ call' = Call("setParticles", "ok", 0, 0, FALSE)
    /\ forces' = ZeroForces
    /\ UNCHANGED <<referencePositions, impl, phase, pc, seen>>

\* A context is (re)built: a fresh implementation object, not yet initialized.
createImpl ==
    /\ pc = "idle"
    /\ phase # "created"
    /\ particles' = <<>>
    /\ referencePos' = <<>>
    /\ numParticles' \in UninitInts
    /\ phase' = "created"
    /\ forces' = ZeroForces
    /\ call' = Call("createImpl", "ok", 0, 0, FALSE)
    /\ UNCHANGED <<owner, pc, seen>>

----------------------------------------------------------------------------
(* ConcertedRMSDForceImpl::initialize. *)

\* A size check that lets a longer array pass.
SizeDiffersShorterOnly(len, systemSize) == len < systemSize

\* owner.getReferencePositions().size() != systemSize
SizeDiffers(len, systemSize) == len # systemSize

RECURSIVE CheckFromOffByOne(_, _, _, _)
\* The loop with the upper bound of the range test off by one.
CheckFromOffByOne(p, k, distinctParticles, systemSize) ==
    IF k > Len(p) THEN [kind |-> "ok", index |-> 0]
    ELSE IF p[k] < 0 \/ p[k] > systemSize
         THEN [kind |-> "InvalidIndex", index |-> p[k]]
    ELSE IF p[k] \in distinctParticles
         THEN [kind |-> "DuplicateIndex", index |-> p[k]]
    ELSE CheckFromOffByOne(p, k + 1, distinctParticles \cup {p[k]}, systemSize)

RECURSIVE CheckFrom(_, _, _, _)
\* The loop over the particles from position k on, distinctParticles holding
\* the indices already passed: the first defect met, or "ok".
CheckFrom(p, k, distinctParticles, systemSize) ==
    IF k > Len(p) THEN [kind |-> "ok", index |-> 0]
    ELSE IF p[k] < 0 \/ p[k] >= systemSize
         THEN [kind |-> "InvalidIndex", index |-> p[k]]
    ELSE IF p[k] \in distinctParticles
         THEN [kind |-> "DuplicateIndex", index |-> p[k]]
    ELSE CheckFrom(p, k + 1, distinctParticles \cup {p[k]}, systemSize)

CheckParticles(p, systemSize) == CheckFrom(p, 1, {}, systemSize)

\* center = (sum of ref[i] for i in p) / n
Center(ref, p, n, mem) == RDivInt(SumAt(ref, p, Len(p), mem), n)

\* A subtraction that moves the coordinates of the particles p only.
SubtractCenterOfSelected(ref, p, center) ==
    [k \in 1..Len(ref) |-> IF (k - 1) \in SeqToSet(p) THEN RSub(ref[k], center)
                                                      ELSE ref[k]]

\* for (Vec3& p : referencePos) p -= center;
SubtractCenter(ref, p, center) == [k \in 1..Len(ref) |-> RSub(ref[k], center)]

\* referencePos = owner.getReferencePositions(), then centred on the particles p.
Centered(ref, p, n, mem) == SubtractCenter(ToVec(ref), p, Center(ToVec(ref), p, n, mem))

initialize ==
    /\ pc = "idle"
    /\ phase = "created"
    /\ IF SizeDiffers(Len(referencePositions), NumSystemParticles)
       THEN /\ call' = Call("initialize", "SizeMismatch", 0, 0, FALSE)
            /\ phase' = "failed"
            /\ UNCHANGED impl
       ELSE LET chk == CheckParticles(ownerParticles, NumSystemParticles) IN
            /\ particles' = ownerParticles
            /\ numParticles' = Len(ownerParticles)
            /\ IF chk.kind # "ok"
               THEN /\ call' = Call("initialize", chk.kind, chk.index, 0, FALSE)
                    /\ phase' = "failed"
                    /\ UNCHANGED referencePos
               ELSE /\ \E mem \in Mems(ownerParticles, Len(referencePositions)) :
                         referencePos' = Centered(referencePositions, ownerParticles,
                                                  Len(ownerParticles), mem)
                    /\ call' = Call("initialize", "ok", 0, 0, FALSE)
                    /\ phase' = "ready"
    /\ forces' = ZeroForces
    /\ UNCHANGED <<owner, pc, seen>>

----------------------------------------------------------------------------
(* ConcertedRMSDForceImpl::updateParametersInContext, called through        *)
(* ConcertedRMSDForce::updateParametersInContext.                           *)

\* A default list filled from the last index down.
AllParticlesDescending(len) == [k \in 1..len |-> len - k]

\* for (int i = 0; i < referencePos.size(); i++) particles.push_back(i);
AllParticles(len) == [k \in 1..len |-> k - 1]

\* particles after lines 159-162
UpdatedParticles(p, len) == IF Len(p) = 0 THEN AllParticles(len) ELSE p

\* the number of context.systemChanged() calls of a completed update
Notifications == 1

\* The body of updateParametersInContext, ownerSel being what
\* owner.getParticles() returns.
UpdateBody(ownerSel) ==
    IF SizeDiffers(Len(referencePos), Len(referencePositions))
    THEN /\ call' = Call("updateParametersInContext", "SizeMismatch", 0, 0, FALSE)
         /\ UNCHANGED <<impl, phase>>
    ELSE LET p == UpdatedParticles(ownerSel, Len(referencePos)) IN
         /\ particles' = p
         /\ numParticles' = Len(p)
         /\ \/ \E mem \in Mems(p, Len(referencePositions)) :
                 /\ referencePos' = Centered(referencePositions, p, Len(p), mem)
                 /\ call' = Call("updateParametersInContext", "ok", 0,
                                 Notifications, FALSE)
                 /\ phase' = "ready"
            \/ \* referencePos[i] outside the storage may also end the process
               /\ HasOutOfRange(p, Len(referencePositions))
               /\ referencePos' = ToVec(referencePositions)
               /\ call' = Call("updateParametersInContext", "crash", 0, 0, FALSE)
               /\ phase' = "crashed"

updateParametersInContext ==
    /\ pc = "idle"
    /\ phase = "ready"
    /\ UpdateBody(ownerParticles)
    /\ forces' = ZeroForces
    /\ UNCHANGED <<owner, pc, seen>>

\* The user's reconfiguration with a new selection:
\* force.setParticles(newSelection); force.updateParametersInContext(context).
reconfigureKeepingReference(newSelection) ==
    /\ pc = "idle"
    /\ phase = "ready"
    /\ ownerParticles' = newSelection
    /\ UpdateBody(newSelection)
    /\ forces' = ZeroForces
    /\ UNCHANGED <<referencePositions, pc, seen>>

----------------------------------------------------------------------------
(* ConcertedRMSDForceImpl::computeForce. *)

RECURSIVE SumCorr(_, _, _)
\* R[0][0]: the sum over k of centeredPos[k][0]*referencePos[particles[k]][0]
SumCorr(centeredPos, refAt, k) ==
    IF k = 0 THEN Zero
    ELSE RAdd(SumCorr(centeredPos, refAt, k - 1), RMul(centeredPos[k], refAt[k]))

RECURSIVE SumSquares(_, _, _)
\* sum += centeredPos[i].dot(centeredPos[i]) + referencePos[index].dot(referencePos[index])
SumSquares(centeredPos, refAt, k) ==
    IF k = 0 THEN Zero
    ELSE RAdd(SumSquares(centeredPos, refAt, k - 1),
              RAdd(RMul(centeredPos[k], centeredPos[k]), RMul(refAt[k], refAt[k])))

\* values[3], the largest eigenvalue of F = diag(R00, R00, -R00, -R00)
MaxEigenvalue(R00) == RAbs(R00)

\* U[0][0] = q00 + q11 - q22 - q33 for the eigenvector q of values[3]: q lies
\* in span(e0, e1) when R00 > 0, in span(e2, e3) when R00 < 0; when R00 = 0
\* every unit q is an eigenvector and the solver's choice decides.
U00Choices(R00) == IF IsNaN(R00) THEN {NaN}
                   ELSE IF R00.n > 0 THEN {Num(1)}
                   ELSE IF R00.n < 0 THEN {Num(0 - 1)}
                   ELSE {Num(1), Num(0 - 1)}

\* double msd = (sum - 2*values[3])/numParticles;
Msd(sum, lambda, n) == RDivInt(RSub(sum, RMul(Num(2), lambda)), n)

\* -(centeredPos[i] - rotatedRef) / (rmsd*numParticles), rotatedRef = U[0][0]*p[0]
ForceOn(c, r, u00, msd, n) == Force(RNeg(RDivInt(RSub(c, RMul(u00, r)), n)), msd)

\* A write one entry further.
TargetNext(p, k) == p[k] + 1

\* The index written for the k-th particle.
Target(p, k) == p[k]

RECURSIVE WriteForces(_, _, _, _, _, _, _, _)
\* The loop of lines 146-152 over the first k particles; a write outside the
\* array's storage lands outside the array.
WriteForces(f, p, centeredPos, refAt, u00, msd, n, k) ==
    IF k = 0 THEN f
    ELSE LET i == Target(p, k) IN
         IF InRange(i, Len(f))
         THEN [WriteForces(f, p, centeredPos, refAt, u00, msd, n, k - 1)
                  EXCEPT ![i + 1] = ForceOn(centeredPos[k], refAt[k], u00, msd, n)]
         ELSE WriteForces(f, p, centeredPos, refAt, u00, msd, n, k - 1)

\* What one call returns and leaves in the force array.
Outcome(f, small, ret) == [forces |-> f, small |-> small, ret |-> ret]

\* Lines 126-153, msd known.
Finish(f, p, n, centeredPos, refAt, R00, msd) ==
    IF BelowThreshold(msd)
    THEN {Outcome(f, TRUE, Zero)}
    ELSE {Outcome(WriteForces(f, p, centeredPos, refAt, u00, msd, n, n), FALSE, msd) :
             u00 \in U00Choices(R00)}

\* Lines 79-125, the centred positions and the references of the particles known.
Correlate(f, p, n, centeredPos, refAt, R00) ==
    Finish(f, p, n, centeredPos, refAt, R00,
           Msd(SumSquares(centeredPos, refAt, n), MaxEigenvalue(R00), n))

\* Lines 73-75, the centroid known.
CenterPositions(f, pos, p, n, ref, center, memP, memR) ==
    LET centeredPos == [k \in 1..n |-> RSub(At(pos, p[k], memP), center)]
        refAt == [k \in 1..n |-> At(ref, p[k], memR)]
    IN  Correlate(f, p, n, centeredPos, refAt, SumCorr(centeredPos, refAt, n))

\* The outcomes of computeForce on the stored p, n, ref.
ComputeForceOutcomes(pos, f, p, n, ref, memP, memR) ==
    CenterPositions(f, pos, p, n, ref, RDivInt(SumAt(pos, p, Len(p), memP), n),
                    memP, memR)

computeForce(positions, forcesIn) ==
    /\ pc = "idle"
    /\ phase = "ready"
    /\ \/ /\ phase' = "ready"
          /\ \E memP \in Mems(particles, Len(positions)),
                memR \in Mems(particles, Len(referencePos)) :
             \E out \in ComputeForceOutcomes(ToVec(positions), forcesIn, particles,
                                             numParticles, referencePos, memP, memR) :
                /\ forces' = out.forces
                /\ call' = [Call("computeForce", "ok", 0, 0, out.small)
                               EXCEPT !.forcesIn = forcesIn, !.ret = out.ret]
       \/ \* an access outside an array's storage may also end the process
          /\ HasOutOfRange(particles, Len(positions))
          /\ forces' = forcesIn
          /\ call' = [Call("computeForce", "crash", 0, 0, FALSE)
                         EXCEPT !.forcesIn = forcesIn]
          /\ phase' = "crashed"
    /\ UNCHANGED <<owner, impl, pc, seen>>

Next ==
    \/ \E positions \in RefInputs : setReferencePositions(positions)
    \/ \E p \in SelInputs : setParticles(p)
    \/ createImpl
    \/ initialize
    \/ updateParametersInContext

Spec == Init /\ [][Next]_vars

\* One context's life with evaluations: the user reconfigures, the host
\* evaluates.
NextEval ==
    \/ initialize
    \/ \E newSelection \in SelInputs : reconfigureKeepingReference(newSelection)
    \/ \E positions \in PositionInputs, forcesIn \in ForceInputs :
           computeForce(positions, forcesIn)

SpecEval == Init /\ [][NextEval]_vars

----------------------------------------------------------------------------
(* updateParametersInContext statement by statement, with a computeForce    *)
(* of another thread reading the stored state between its statements.      *)

\* An order of statements that notifies right after the copy of line 164.
StepAfterNotifyEarly(at) ==
    CASE at = "l157" -> "l159"
      [] at = "l159" -> "l160"
      [] at = "l160" -> "l163"
      [] at = "l163" -> "l164"
      [] at = "l164" -> "l171"
      [] at = "l165" -> "l171"
      [] at = "l171" -> "idle"

\* The statement executed after the one at line `at`.
StepAfter(at) ==
    CASE at = "l157" -> "l159"
      [] at = "l159" -> "l160"
      [] at = "l160" -> "l163"
      [] at = "l163" -> "l164"
      [] at = "l164" -> "l165"
      [] at = "l165" -> "l171"
      [] at = "l171" -> "idle"

Running == Call("updateParametersInContext", "running", 0, 0, FALSE)

\* force.setParticles(newSelection); force.updateParametersInContext(context)
\* up to the size check of line 157.
reconfigureBegin(newSelection) ==
    /\ pc = "idle"
    /\ phase = "ready"
    /\ ownerParticles' = newSelection
    /\ IF SizeDiffers(Len(referencePos), Len(referencePositions))
       THEN /\ call' = Call("updateParametersInContext", "SizeMismatch", 0, 0, FALSE)
            /\ UNCHANGED <<pc, seen>>
       ELSE /\ call' = Running
            /\ pc' = StepAfter("l157")
            /\ seen' = <<impl>>
    /\ UNCHANGED <<referencePositions, impl, phase, forces>>

\* particles = owner.getParticles();
step159 ==
    /\ pc = "l159"
    /\ particles' = ownerParticles
    /\ pc' = StepAfter(pc)
    /\ UNCHANGED <<owner, numParticles, referencePos, phase, forces, call, seen>>

\* if (particles.size() == 0) for (...) particles.push_back(i);
step160 ==
    /\ pc = "l160"
    /\ particles' = UpdatedParticles(particles, Len(referencePos))
    /\ pc' = StepAfter(pc)
    /\ UNCHANGED <<owner, numParticles, referencePos, phase, forces, call, seen>>

\* numParticles = particles.size();
step163 ==
    /\ pc = "l163"
    /\ numParticles' = Len(particles)
    /\ pc' = StepAfter(pc)
    /\ UNCHANGED <<owner, particles, referencePos, phase, forces, call, seen>>

\* referencePos = owner.getReferencePositions();
step164 ==
    /\ pc = "l164"
    /\ referencePos' = ToVec(referencePositions)
    /\ pc' = StepAfter(pc)
    /\ UNCHANGED <<owner, particles, numParticles, phase, forces, call, seen>>

\* The centroid and its subtraction, lines 165-170.
step165 ==
    /\ pc = "l165"
    /\ \/ \E mem \in Mems(particles, Len(referencePos)) :
            /\ referencePos' = SubtractCenter(referencePos, particles,
                                   Center(referencePos, particles, numParticles, mem))
            /\ pc' = StepAfter(pc)
            /\ UNCHANGED <<call, phase>>
       \/ /\ HasOutOfRange(particles, Len(referencePos))
          /\ call' = Call("updateParametersInContext", "crash", 0, 0, FALSE)
          /\ phase' = "crashed"
          /\ pc' = "idle"
          /\ UNCHANGED referencePos
    /\ UNCHANGED <<owner, particles, numParticles, forces, seen>>

\* context.systemChanged();
step171 ==
    /\ pc = "l171"
    /\ call' = Call("updateParametersInContext", "ok", 0,
                    call.notified + Notifications, FALSE)
    /\ pc' = StepAfter(pc)
    /\ seen' = NoSeen
    /\ UNCHANGED <<owner, impl, phase, forces>>

\* computeForce of another thread reads particles, numParticles and
\* referencePos (lines 69-85) while the update is between two statements.
computeForceReads ==
    /\ pc # "idle"
    /\ phase = "ready"
    /\ seen' = <<seen[1], impl>>
    /\ UNCHANGED <<owner, impl, phase, forces, call, pc>>

NextSteps ==
    \/ initialize
    \/ \E positions \in RefInputs : setReferencePositions(positions)
    \/ \E newSelection \in SelInputs : reconfigureBegin(newSelection)
    \/ step159
    \/ step160
    \/ step163
    \/ step164
    \/ step165
    \/ step171
    \/ computeForceReads

SpecSteps == Init /\ [][NextSteps]_vars

----------------------------------------------------------------------------
(* Properties. *)

Configured == call.op \in {"initialize", "updateParametersInContext"}
                 /\ call.result = "ok"

Updated == call.op = "updateParametersInContext" /\ call.result = "ok"

Distinct(p) == \A j, k \in 1..Len(p) : j # k => p[j] # p[k]

AllInRange(p, len) == \A k \in 1..Len(p) : InRange(p[k], len)

RECURSIVE IntSumAt(_, _, _)
\* r[p[1]] + ... + r[p[k]], p holding 0-based indices inside r
IntSumAt(r, p, k) == IF k = 0 THEN 0 ELSE IntSumAt(r, p, k - 1) + r[p[k] + 1]

\* The centroid of the supplied coordinates r at the indices p.
Centroid(r, p) == RDivInt(Num(IntSumAt(r, p, Len(p))), Len(p))

\* C1: a configure that fails with a ConfigurationError leaves the stored
\* selection, particle count and reference exactly as they were.
C1_FailedConfigureChangesNothing ==
    [][(call'.op = "initialize" /\ call'.result # "ok") => impl' = impl]_vars

\* C2: when computeForce finds msd < 1e-20 it returns 0 and the force array
\* holds the zero vector at every selected index, whatever it held before.
C2_SmallMsdZeroesForces ==
    (call.op = "computeForce" /\ call.result = "ok" /\ call.small) =>
        /\ call.ret = Zero
        /\ \A k \in 1..Len(particles) :
              InRange(particles[k], Len(forces)) =>
                  forces[particles[k] + 1].num = Zero

\* C3 as stated, on a selection that is not empty, in range and distinct:
\* after a successful configure or reconfiguration every stored reference
\* coordinate whose index is not selected equals the supplied one.
C3_UnselectedVerbatim ==
    (Configured /\ Len(particles) >= 1 /\ Distinct(particles)
        /\ AllInRange(particles, Len(referencePositions))) =>
        \A k \in 1..Len(referencePos) :
            (k - 1) \notin SeqToSet(particles) =>
                referencePos[k] = Num(referencePositions[k])

\* C3 amended: after a successful configure or reconfiguration every stored
\* reference coordinate, selected or not, is the supplied one moved by one
\* common vector, which is the centroid of the supplied coordinates at the
\* selected indices when these are all in range.
C3_AllTranslated ==
    Configured =>
        /\ Len(referencePos) = Len(referencePositions)
        /\ IF AllInRange(particles, Len(referencePositions))
           THEN \A k \in 1..Len(referencePos) :
                   referencePos[k] = RSub(Num(referencePositions[k]),
                                          Centroid(referencePositions, particles))
           ELSE \A j, k \in 1..Len(referencePos) :
                   RSub(referencePos[j], referencePos[k])
                       = Num(referencePositions[j] - referencePositions[k])

\* A reconfiguration has moved a coordinate that is not selected.
C3_Witness ==
    /\ Updated
    /\ AllInRange(particles, Len(referencePositions))
    /\ \E k \in 1..Len(referencePos) :
          /\ (k - 1) \notin SeqToSet(particles)
          /\ referencePos[k] # Num(referencePositions[k])

\* C4: the stored selection of a configured object has at least one element,
\* no duplicate, and every index in [0, systemParticleCount).
C4_SelectionValid ==
    phase = "ready" =>
        /\ Len(particles) >= 1
        /\ Distinct(particles)
        /\ AllInRange(particles, NumSystemParticles)

\* C5: configure succeeds exactly when the reference has the System's length
\* and the indices are in range and distinct; otherwise it fails with
\* SizeMismatch for a wrong length, else with InvalidIndex or DuplicateIndex
\* naming an index of the selection that has that defect.
C5_ConfigureValidation ==
    call.op = "initialize" =>
        LET p == ownerParticles
            sizeOk == Len(referencePositions) = NumSystemParticles
            allIn == AllInRange(p, NumSystemParticles)
        IN  /\ call.result \in {"ok", "SizeMismatch", "InvalidIndex", "DuplicateIndex"}
            /\ (call.result = "ok") <=> (sizeOk /\ allIn /\ Distinct(p))
            /\ (call.result = "SizeMismatch") <=> ~sizeOk
            /\ call.result = "InvalidIndex" =>
                  /\ call.index \in SeqToSet(p)
                  /\ ~InRange(call.index, NumSystemParticles)
            /\ call.result = "DuplicateIndex" =>
                  \E j, k \in 1..Len(p) :
                      j # k /\ p[j] = call.index /\ p[k] = call.index
            /\ (sizeOk /\ ~allIn /\ Distinct(p)) => call.result = "InvalidIndex"
            /\ (sizeOk /\ allIn /\ ~Distinct(p)) => call.result = "DuplicateIndex"

\* configure has rejected the index equal to the System's particle count.
C5_Witness ==
    /\ call.op = "initialize"
    /\ call.result = "InvalidIndex"
    /\ call.index = NumSystemParticles

\* The stored reference keeps the System's length, and an update fails with
\* SizeMismatch exactly when the owner's reference has another length.
C6_State ==
    /\ (call.op = "initialize" /\ call.result = "ok") =>
           Len(referencePositions) = NumSystemParticles
    /\ phase \in {"ready", "crashed"} => Len(referencePos) = NumSystemParticles
    /\ call.op = "updateParametersInContext" =>
           ((call.result = "SizeMismatch")
                <=> (Len(referencePositions) # NumSystemParticles))

\* An update that fails with SizeMismatch changes nothing stored.
C6_Step ==
    (call'.op = "updateParametersInContext" /\ call'.result = "SizeMismatch") =>
        impl' = impl

\* C6: after a successful configure, whatever the setters did, a
\* reconfiguration fails with SizeMismatch exactly when the owner's reference
\* length differs from the length configured at construction (the System's
\* particle count); a failed one changes nothing stored, and the stored
\* reference keeps the configured length.
C6_SizeGuard == []C6_State /\ [][C6_Step]_vars

\* A reconfiguration has failed with SizeMismatch.
C6_Witness ==
    /\ call.op = "updateParametersInContext"
    /\ call.result = "SizeMismatch"
    /\ phase = "ready"

\* C7: a reconfiguration with an empty selection stores 0, 1, ..., L-1 in
\* increasing order, L the length of the stored reference, and centres the
\* reference on the centroid of all L positions; with a non-empty selection
\* it stores that selection unchanged.
C7_EmptyMeansAll ==
    Updated =>
        IF ownerParticles = <<>>
        THEN /\ Len(particles) = Len(referencePos)
             /\ \A k \in 1..Len(particles) : particles[k] = k - 1
             /\ \A k \in 1..Len(referencePos) :
                   referencePos[k] =
                       RSub(Num(referencePositions[k]),
                            Centroid(referencePositions,
                                     [j \in 1..Len(referencePositions) |-> j - 1]))
        ELSE particles = ownerParticles

\* A reconfiguration with an empty selection has stored all the particles,
\* around a centroid that is not the origin.
C7_Witness ==
    /\ Updated
    /\ ownerParticles = <<>>
    /\ Len(particles) = NumSystemParticles
    /\ \E k \in 1..Len(referencePos) : referencePos[k] # Num(referencePositions[k])

\* After computeForce every entry whose index is not selected is as supplied.
C8_State ==
    call.op = "computeForce" =>
        \A k \in 1..Len(forces) :
            (k - 1) \notin SeqToSet(particles) => forces[k] = call.forcesIn[k]

\* A computeForce step leaves the stored state alone.
C8_Step == call'.op = "computeForce" => impl' = impl

\* C8: computeForce writes the force array only at selected indices: every
\* entry whose index is not selected is as the caller supplied it, on the
\* normal path and on the msd < 1e-20 path, and the stored selection,
\* particle count and reference are unchanged.
C8_WritesOnlySelected == []C8_State /\ [][C8_Step]_vars

\* computeForce has written a force on the normal path beside an entry the
\* caller had filled and that is not selected.
C8_Witness ==
    /\ call.op = "computeForce"
    /\ call.result = "ok"
    /\ ~call.small
    /\ \E k \in 1..Len(forces) : forces[k] # call.forcesIn[k]
    /\ \E k \in 1..Len(forces) :
          /\ (k - 1) \notin SeqToSet(particles)
          /\ call.forcesIn[k] # HostForce(0)

\* A completed update has notified once, any other none.
C9_State ==
    call.op = "updateParametersInContext" =>
        /\ call.result = "ok" => (call.notified = 1 /\ pc = "idle")
        /\ call.result # "ok" => call.notified = 0

\* The notifying step finds the new selection, count and centred reference
\* stored, and leaves them.
C9_Step ==
    (call'.notified > call.notified) =>
        /\ call'.op = "updateParametersInContext"
        /\ call'.result = "ok"
        /\ impl' = impl
        /\ particles = UpdatedParticles(ownerParticles, Len(referencePos))
        /\ numParticles = Len(particles)
        /\ \E mem \in Mems(particles, Len(referencePositions)) :
              referencePos = Centered(referencePositions, particles,
                                      Len(particles), mem)

\* C9: a successful reconfiguration notifies the host exactly once, and only
\* when the new selection and the re-centred reference are stored; one that
\* fails with SizeMismatch does not notify.
C9_NotifiesOnceAtEnd == []C9_State /\ [][C9_Step]_vars

\* A stepwise reconfiguration has completed and notified.
C9_Witness ==
    /\ call.op = "updateParametersInContext"
    /\ call.result = "ok"
    /\ call.notified = 1
    /\ pc = "idle"
    /\ particles = ownerParticles
    /\ Len(particles) >= 1

\* C10, for a reconfiguration from a stored selection that is not empty to a
\* selection that is not empty, in range and distinct: a computeForce running
\* beside it reads either the complete stored state the reconfiguration began
\* with or the complete new one, never a mixture.
C10_NoMixedState ==
    (Len(seen) = 2 /\ Len(seen[1][1]) >= 1 /\ Len(ownerParticles) >= 1
        /\ Distinct(ownerParticles)
        /\ AllInRange(ownerParticles, Len(referencePositions))) =>
        LET old == seen[1]
            p == UpdatedParticles(ownerParticles, Len(old[3]))
        IN  \/ seen[2] = old
            \/ \E mem \in Mems(p, Len(referencePositions)) :
                  seen[2] = <<p, Len(p),
                              Centered(referencePositions, p, Len(p), mem)>>

====
